---- MODULE Spec2Model ----
(***************************************************************************)
(* State-machine model of the WHMCS -> FreeAgent dashboard front end:      *)
(* the route-switched views Dashboard, Logs (src/frontend/src/App.js) and  *)
(* Settings (src/unnamed/part_000), their polling timers, their handlers   *)
(* and the HTTP requests they have in flight.  The backend is external:    *)
(* every response is an input drawn from a small set.                      *)
(***************************************************************************)
EXTENDS Integers, Sequences, FiniteSets, TLC

\* ---------------------------------------------------------------- bounds
\* requests that can be in flight together
MaxInFlight == 2

\* ---------------------------------------------------------------- values
\* the JavaScript value undefined (an absent field, an absent query parameter)
UNDEF == "undefined"
\* a manual-sync response body that carries no result object
NORESULT == "noresult"

\* x || d on strings: the empty string and undefined are falsy
Or(x, d) == IF x \in {UNDEF, ""} THEN d ELSE x

\* truthiness of a boolean-valued JSON field ("true", "false" or absent)
Truthy(b) == b = "true"

Views == {"dashboard", "settings", "logs"}

\* setAlert(null)
Null == [type |-> "null", message |-> ""]
Alert(t, m) == [type |-> t, message |-> m]

\* useState(null) of syncStatus, and the SyncStatus objects of the backend
NoStatus == [present |-> FALSE, is_running |-> UNDEF]
StatusVals == {[present |-> TRUE, is_running |-> b] : b \in {"true", "false", UNDEF}}

\* log lists as returned by the backend, newest first (entries named by id)
LogVals == {<< >>, <<1>>}

\* result.message of a resolved POST /sync/manual
ManualMessages == {NORESULT, UNDEF, "", "X"}
\* error.response?.data?.detail of a rejected request
Details == {UNDEF, "", "Y"}

\* useState({...}) of the credentials form
EmptyCredentials ==
    [whmcs_url |-> "", whmcs_identifier |-> "", whmcs_secret |-> "",
     freeagent_client_id |-> "", freeagent_client_secret |-> ""]
FieldNames ==
    {"whmcs_url", "whmcs_identifier", "whmcs_secret",
     "freeagent_client_id", "freeagent_client_secret"}
\* what the user types into a field
Typed == {"t"}

\* bodies of GET /settings/credentials; empty = TRUE is a falsy body
NoPayload ==
    [empty |-> TRUE, whmcs_url |-> UNDEF, whmcs_secret |-> UNDEF,
     freeagent_client_id |-> UNDEF, freeagent_client_secret |-> UNDEF,
     is_connected |-> UNDEF]
Payloads ==
    [empty : {FALSE}, whmcs_url : {"u"}, whmcs_secret : {UNDEF, "p"},
     freeagent_client_id : {UNDEF, "c"}, freeagent_client_secret : {"p"},
     is_connected : {UNDEF, "true", "false"}]
Bodies == Payloads \cup {NoPayload}

\* the address bar: path and the query parameters oauth and message
Address(p, o, m) == [path |-> p, oauth |-> o, message |-> m]
\* the query strings /settings is visited with: oauth and message
Queries ==
    {<<UNDEF, UNDEF>>, <<"success", UNDEF>>, <<"error", UNDEF>>,
     <<"error", "Denied">>, <<"other", "Denied">>}

VARIABLES
    view,          \* the mounted view, "none" while the page is loading
    timers,        \* active setInterval timers
    net,           \* HTTP requests in flight, in the order they were issued
    loading,       \* useState(true) of the mounted view
    alert,         \* useState(null) of the mounted view
    syncStatus, recentLogs, syncing,                      \* Dashboard
    logs,                                                 \* Logs
    credentials, saving, connecting, disconnecting,       \* Settings
    isConnected,
    address        \* window.location

dashVars == <<syncStatus, recentLogs, syncing>>
setVars == <<credentials, saving, connecting, disconnecting, isConnected>>
vars == <<view, timers, net, loading, alert, syncStatus, recentLogs, syncing, logs,
          credentials, saving, connecting, disconnecting, isConnected, address>>

\* ---------------------------------------------------------------- helpers
\* an axios call: live = the component instance that issued it is mounted,
\* awaited = a handler (handleManualSync, handleSubmit) awaits this fetch,
\* part, st, lg = what Promise.all of a Dashboard cycle has received so far
Req(k, l, a) ==
    [kind |-> k, live |-> l, awaited |-> a,
     part |-> "none", st |-> NoStatus, lg |-> << >>]

Indexes == 1..Len(net)
LiveCount == Cardinality({i \in Indexes : net[i].live})

\* net without its i-th request
Remove(i) == [j \in 1..(Len(net) - 1) |-> IF j < i THEN net[j] ELSE net[j + 1]]

\* the requests of the unmounted instance stay in flight; what they deliver
\* is set on a component that is no longer rendered, so it is not kept
Orphan(r) == [Req(r.kind, FALSE, FALSE) EXCEPT !.part = r.part]
Orphaned(q) == [j \in 1..Len(q) |-> Orphan(q[j])]

\* room for one more request
CanIssue == Len(net) < MaxInFlight

\* useState initial values of the three components
InitialState ==
    /\ loading' = TRUE
    /\ alert' = Null
    /\ syncStatus' = NoStatus
    /\ recentLogs' = << >>
    /\ syncing' = FALSE
    /\ logs' = << >>
    /\ credentials' = EmptyCredentials
    /\ saving' = FALSE
    /\ connecting' = FALSE
    /\ disconnecting' = FALSE
    /\ isConnected' = FALSE

Init ==
    /\ view = "none"
    /\ timers = {}
    /\ net = << >>
    /\ loading = TRUE
    /\ alert = Null
    /\ syncStatus = NoStatus
    /\ recentLogs = << >>
    /\ syncing = FALSE
    /\ logs = << >>
    /\ credentials = EmptyCredentials
    /\ saving = FALSE
    /\ connecting = FALSE
    /\ disconnecting = FALSE
    /\ isConnected = FALSE
    /\ address = Address("", UNDEF, UNDEF)

\* ---------------------------------------------------------------- mounting
\* an effect without cleanup: the timer of the unmounted instance keeps running
ClearInterval_leak(ts) == ts

\* return () => clearInterval(interval): the cleanup of the unmounted instance
ClearInterval(ts) == {t \in ts : ~t.live}

\* a mount effect that only arms the timer and leaves the first fetch to it
MountFetch_timerOnly(k) == << >>

\* fetchData / fetchLogs / fetchCredentials called by the mount effect
MountFetch(k) == <<Req(k, TRUE, FALSE)>>

\* setInterval(fetchData, 10000) / setInterval(fetchLogs, 15000)
SetInterval(v) == {[view |-> v, live |-> TRUE]}

\* the router switches to another view; the requests in flight stay in
\* flight on behalf of the unmounted instance
CanMount(v) ==
    /\ v # view
    /\ CanIssue

MountDashboard ==
    /\ CanMount("dashboard")
    /\ view' = "dashboard"
    /\ InitialState
    /\ net' = Orphaned(net) \o MountFetch("cycle")
    /\ timers' = ClearInterval(timers) \cup SetInterval("dashboard")
    /\ address' = Address("/", UNDEF, UNDEF)

MountLogs ==
    /\ CanMount("logs")
    /\ view' = "logs"
    /\ InitialState
    /\ net' = Orphaned(net) \o MountFetch("logs")
    /\ timers' = ClearInterval(timers) \cup SetInterval("logs")
    /\ address' = Address("/logs", UNDEF, UNDEF)

\* the banner the Settings mount effect sets from the OAuth callback result
OAuthAlert(o, m) ==
    IF o = "success" THEN Alert("success", "Successfully connected to FreeAgent!")
    ELSE IF o = "error" THEN Alert("error", Or(m, "Failed to connect to FreeAgent"))
    ELSE Null

\* a mount effect that leaves the callback result in the address
OAuthAddress_keep(o, m) == Address("/settings", o, m)

\* window.history.replaceState({}, '', '/settings') on a callback result
OAuthAddress(o, m) ==
    IF o \in {"success", "error"} THEN Address("/settings", UNDEF, UNDEF)
    ELSE Address("/settings", o, m)

MountSettings(o, m) ==
    /\ CanMount("settings")
    /\ view' = "settings"
    /\ loading' = TRUE
    /\ syncStatus' = NoStatus
    /\ recentLogs' = << >>
    /\ syncing' = FALSE
    /\ logs' = << >>
    /\ credentials' = EmptyCredentials
    /\ saving' = FALSE
    /\ connecting' = FALSE
    /\ disconnecting' = FALSE
    /\ isConnected' = FALSE
    /\ net' = Orphaned(net) \o MountFetch("credGet")
    /\ timers' = ClearInterval(timers)
    /\ alert' = OAuthAlert(o, m)
    /\ address' = OAuthAddress(o, m)

\* ---------------------------------------------------------------- timers
\* a tick of an active interval calls fetchData or fetchLogs
Tick(t) ==
    /\ t \in timers
    /\ CanIssue
    /\ net' = Append(net, Req(IF t.view = "dashboard" THEN "cycle" ELSE "logs",
                              t.live, FALSE))
    /\ UNCHANGED <<view, timers, loading, alert, dashVars, logs, setVars, address>>

\* ---------------------------------------------------------------- Dashboard
\* a fetchData that drops its result when a later-issued cycle is in flight
FetchDataApply_latestOnly(i, s, l) ==
    /\ net' = Remove(i)
    /\ IF net[i].live
       THEN /\ IF \E j \in Indexes : j > i /\ net[j].live /\ net[j].kind = "cycle"
               THEN UNCHANGED <<syncStatus, recentLogs>>
               ELSE syncStatus' = s /\ recentLogs' = l
            /\ loading' = FALSE
            /\ syncing' = IF net[i].awaited THEN FALSE ELSE syncing
       ELSE UNCHANGED <<syncStatus, recentLogs, loading, syncing>>

\* fetchData after Promise.all resolved: the three setters of the try block,
\* then the finally block of handleManualSync when it awaited this cycle
FetchDataApply(i, s, l) ==
    /\ net' = Remove(i)
    /\ IF net[i].live
       THEN /\ syncStatus' = s
            /\ recentLogs' = l
            /\ loading' = FALSE
            /\ syncing' = IF net[i].awaited THEN FALSE ELSE syncing
       ELSE UNCHANGED <<syncStatus, recentLogs, loading, syncing>>

\* a fetchData that applies each response as soon as it arrives
FetchDataWait_eager(i, q) ==
    /\ net' = [net EXCEPT ![i] = q]
    /\ syncStatus' = IF q.live /\ q.part = "status" THEN q.st ELSE syncStatus
    /\ recentLogs' = IF q.live /\ q.part = "logs" THEN q.lg ELSE recentLogs
    /\ UNCHANGED <<loading, syncing>>

\* one of the two requests resolved while the other is still pending
FetchDataWait(i, q) ==
    /\ net' = [net EXCEPT ![i] = q]
    /\ UNCHANGED <<syncStatus, recentLogs, loading, syncing>>

\* GET /sync/status of a Dashboard fetch cycle resolves with s
StatusResponse(i, s) ==
    /\ net[i].kind = "cycle"
    /\ net[i].part # "status"
    /\ IF net[i].part = "logs"
       THEN FetchDataApply(i, s, net[i].lg)
       ELSE FetchDataWait(i, [net[i] EXCEPT !.part = "status",
                                            !.st = IF net[i].live THEN s ELSE NoStatus])
    /\ UNCHANGED <<view, timers, alert, logs, setVars, address>>

\* GET /sync/logs?limit=5 of a Dashboard fetch cycle resolves with l
RecentLogsResponse(i, l) ==
    /\ net[i].kind = "cycle"
    /\ net[i].part # "logs"
    /\ IF net[i].part = "status"
       THEN FetchDataApply(i, net[i].st, l)
       ELSE FetchDataWait(i, [net[i] EXCEPT !.part = "logs",
                                            !.lg = IF net[i].live THEN l ELSE << >>])
    /\ UNCHANGED <<view, timers, alert, logs, setVars, address>>

\* either request of the cycle rejects: Promise.all rejects, the catch block
\* of fetchData runs, then the finally block of an awaiting handleManualSync
FetchDataRejected(i) ==
    /\ net[i].kind = "cycle"
    /\ net' = Remove(i)
    /\ IF net[i].live
       THEN /\ loading' = FALSE
            /\ syncing' = IF net[i].awaited THEN FALSE ELSE syncing
       ELSE UNCHANGED <<loading, syncing>>
    /\ UNCHANGED <<view, timers, alert, syncStatus, recentLogs, logs, setVars, address>>

\* a button that looks at the local flag only
ManualSyncDisabled_localOnly == syncing

\* disabled={syncing || syncStatus?.is_running}
ManualSyncDisabled == syncing \/ Truthy(syncStatus.is_running)

\* the manual-sync button is rendered (not the loading page) and can be clicked
ManualSyncClickable ==
    /\ view = "dashboard"
    /\ ~loading
    /\ ~ManualSyncDisabled

\* handleManualSync up to its first await
HandleManualSync ==
    /\ ManualSyncClickable
    /\ CanIssue
    /\ syncing' = TRUE
    /\ alert' = Null
    /\ net' = Append(net, Req("manual", TRUE, FALSE))
    /\ UNCHANGED <<view, timers, loading, syncStatus, recentLogs, logs, setVars, address>>

\* the banner set after POST /sync/manual resolved with result.message = m
ManualSuccessAlert(m) == Alert("success", Or(m, "Sync completed successfully!"))

\* a catch block that shows the generic text whatever the backend reported
ManualErrorAlert_generic(d) ==
    Alert("error", "Sync failed. Please check your settings and try again.")

\* the banner set by the catch block of handleManualSync
ManualErrorAlert(d) ==
    Alert("error", Or(d, "Sync failed. Please check your settings and try again."))

\* a handleManualSync that forgets the refresh
ManualRefresh_none(r) == << >>

\* the requests handleManualSync issues after the POST resolved: await fetchData()
ManualRefresh(r) == <<Req("cycle", r.live, r.live)>>

\* POST /sync/manual resolves; a body without a result object makes
\* response.data.result.message throw, which the catch block handles
ManualSyncResolved(i, m) ==
    /\ net[i].kind = "manual"
    /\ IF m = NORESULT
       THEN /\ net' = Remove(i)
            /\ IF net[i].live
               THEN alert' = ManualErrorAlert(UNDEF) /\ syncing' = FALSE
               ELSE UNCHANGED <<alert, syncing>>
       ELSE /\ net' = Remove(i) \o ManualRefresh(net[i])
            /\ alert' = IF net[i].live THEN ManualSuccessAlert(m) ELSE alert
            /\ syncing' = syncing
    /\ UNCHANGED <<view, timers, loading, syncStatus, recentLogs, logs, setVars, address>>

\* POST /sync/manual rejects with error.response?.data?.detail = d
ManualSyncRejected(i, d) ==
    /\ net[i].kind = "manual"
    /\ net' = Remove(i)
    /\ IF net[i].live
       THEN alert' = ManualErrorAlert(d) /\ syncing' = FALSE
       ELSE UNCHANGED <<alert, syncing>>
    /\ UNCHANGED <<view, timers, loading, syncStatus, recentLogs, logs, setVars, address>>

\* ---------------------------------------------------------------- Logs
\* the refresh button of the Logs view: onClick={fetchLogs}
RefreshLogs ==
    /\ view = "logs"
    /\ ~loading
    /\ CanIssue
    /\ net' = Append(net, Req("logs", TRUE, FALSE))
    /\ UNCHANGED <<view, timers, loading, alert, dashVars, logs, setVars, address>>

\* a fetchLogs that fills the table on the first load only
FetchLogsResolved_firstLoadOnly(i, l) ==
    /\ net[i].kind = "logs"
    /\ net' = Remove(i)
    /\ IF net[i].live
       THEN logs' = (IF loading THEN l ELSE logs) /\ loading' = FALSE
       ELSE UNCHANGED <<logs, loading>>
    /\ UNCHANGED <<view, timers, alert, dashVars, setVars, address>>

\* GET /sync/logs?limit=100 resolves with l
FetchLogsResolved(i, l) ==
    /\ net[i].kind = "logs"
    /\ net' = Remove(i)
    /\ IF net[i].live
       THEN logs' = l /\ loading' = FALSE
       ELSE UNCHANGED <<logs, loading>>
    /\ UNCHANGED <<view, timers, alert, dashVars, setVars, address>>

\* GET /sync/logs?limit=100 rejects
FetchLogsRejected(i) ==
    /\ net[i].kind = "logs"
    /\ net' = Remove(i)
    /\ loading' = IF net[i].live THEN FALSE ELSE loading
    /\ UNCHANGED <<view, timers, alert, dashVars, logs, setVars, address>>

\* ---------------------------------------------------------------- Settings
\* a fetchCredentials that copies every field of the body into the form
CredentialsFromPayload_echo(b) ==
    [whmcs_url |-> Or(b.whmcs_url, ""),
     whmcs_identifier |-> "",
     whmcs_secret |-> Or(b.whmcs_secret, ""),
     freeagent_client_id |-> Or(b.freeagent_client_id, ""),
     freeagent_client_secret |-> Or(b.freeagent_client_secret, "")]

\* setCredentials({...}) of fetchCredentials for a truthy response body b
CredentialsFromPayload(b) ==
    [whmcs_url |-> Or(b.whmcs_url, ""),
     whmcs_identifier |-> "",
     whmcs_secret |-> "",
     freeagent_client_id |-> Or(b.freeagent_client_id, ""),
     freeagent_client_secret |-> ""]

\* response.data.is_connected || false
ConnectedFromPayload(b) == Truthy(b.is_connected)

\* the form state after fetchCredentials received body b: if (response.data) {...}
CredentialsAfterFetch(b) ==
    IF b.empty THEN credentials ELSE CredentialsFromPayload(b)

\* GET /settings/credentials resolves with body b; when handleSubmit awaited
\* this fetch its finally block runs afterwards
FetchCredentialsResolved(i, b) ==
    /\ net[i].kind = "credGet"
    /\ net' = Remove(i)
    /\ IF net[i].live
       THEN /\ credentials' = CredentialsAfterFetch(b)
            /\ isConnected' = IF b.empty THEN isConnected ELSE ConnectedFromPayload(b)
            /\ loading' = FALSE
            /\ saving' = IF net[i].awaited THEN FALSE ELSE saving
       ELSE UNCHANGED <<credentials, isConnected, loading, saving>>
    /\ UNCHANGED <<view, timers, alert, dashVars, logs, connecting, disconnecting, address>>

\* GET /settings/credentials rejects
FetchCredentialsRejected(i) ==
    /\ net[i].kind = "credGet"
    /\ net' = Remove(i)
    /\ IF net[i].live
       THEN /\ loading' = FALSE
            /\ saving' = IF net[i].awaited THEN FALSE ELSE saving
       ELSE UNCHANGED <<loading, saving>>
    /\ UNCHANGED <<view, timers, alert, dashVars, logs, credentials, connecting,
                   disconnecting, isConnected, address>>

\* handleChange: the user edits one field of the rendered form
HandleChange(name, value) ==
    /\ view = "settings"
    /\ ~loading
    /\ credentials[name] # value
    /\ credentials' = [credentials EXCEPT ![name] = value]
    /\ UNCHANGED <<view, timers, net, loading, alert, dashVars, logs, saving,
                   connecting, disconnecting, isConnected, address>>

\* native validation of the form: every input is required
FormValid == \A f \in FieldNames : credentials[f] # ""

\* handleSubmit up to its first await; the submit button is disabled={saving}
HandleSubmit ==
    /\ view = "settings"
    /\ ~loading
    /\ ~saving
    /\ FormValid
    /\ CanIssue
    /\ saving' = TRUE
    /\ alert' = Null
    /\ net' = Append(net, Req("credPost", TRUE, FALSE))
    /\ UNCHANGED <<view, timers, loading, dashVars, logs, credentials, connecting,
                   disconnecting, isConnected, address>>

\* a handleSubmit that does not re-fetch
SaveRefresh_none(r) == << >>

\* the requests handleSubmit issues after the POST resolved: await fetchCredentials()
SaveRefresh(r) == <<Req("credGet", r.live, r.live)>>

\* POST /settings/credentials resolves
SaveResolved(i) ==
    /\ net[i].kind = "credPost"
    /\ net' = Remove(i) \o SaveRefresh(net[i])
    /\ alert' = IF net[i].live THEN Alert("success", "Credentials saved successfully!")
                ELSE alert
    /\ UNCHANGED <<view, timers, loading, dashVars, logs, setVars, address>>

\* a handleSubmit whose failure path leaves the saving flag up
SaveRejected_stuck(i, d) ==
    /\ net[i].kind = "credPost"
    /\ net' = Remove(i)
    /\ alert' = IF net[i].live THEN Alert("error", Or(d, "Failed to save credentials"))
                ELSE alert
    /\ UNCHANGED <<view, timers, loading, dashVars, logs, setVars, address>>

\* POST /settings/credentials rejects with detail d
SaveRejected(i, d) ==
    /\ net[i].kind = "credPost"
    /\ net' = Remove(i)
    /\ IF net[i].live
       THEN /\ alert' = Alert("error", Or(d, "Failed to save credentials"))
            /\ saving' = FALSE
       ELSE UNCHANGED <<alert, saving>>
    /\ UNCHANGED <<view, timers, loading, dashVars, logs, credentials, connecting,
                   disconnecting, isConnected, address>>

\* handleConnectFreeAgent up to its await; the button is rendered when not
\* connected and is disabled={connecting || !credentials.freeagent_client_id}
HandleConnectFreeAgent ==
    /\ view = "settings"
    /\ ~loading
    /\ ~isConnected
    /\ ~connecting
    /\ credentials.freeagent_client_id # ""
    /\ CanIssue
    /\ connecting' = TRUE
    /\ alert' = Null
    /\ net' = Append(net, Req("authorize", TRUE, FALSE))
    /\ UNCHANGED <<view, timers, loading, dashVars, logs, credentials, saving,
                   disconnecting, isConnected, address>>

\* GET /oauth/freeagent/authorize resolves: window.location.href = ... leaves
\* the page, which unloads the application with everything it had in flight
AuthorizeResolved(i) ==
    /\ net[i].kind = "authorize"
    /\ view' = "none"
    /\ timers' = {}
    /\ net' = << >>
    /\ InitialState
    /\ address' = Address("freeagent", UNDEF, UNDEF)

\* GET /oauth/freeagent/authorize rejects with detail d
AuthorizeRejected(i, d) ==
    /\ net[i].kind = "authorize"
    /\ net' = Remove(i)
    /\ IF net[i].live
       THEN /\ alert' = Alert("error", Or(d, "Failed to initiate FreeAgent connection"))
            /\ connecting' = FALSE
       ELSE UNCHANGED <<alert, connecting>>
    /\ UNCHANGED <<view, timers, loading, dashVars, logs, credentials, saving,
                   disconnecting, isConnected, address>>

\* a handleDisconnectFreeAgent that does not look at the answer to window.confirm
HandleDisconnectFreeAgent_noConfirm(c) ==
    /\ view = "settings"
    /\ ~loading
    /\ isConnected
    /\ ~disconnecting
    /\ CanIssue
    /\ disconnecting' = TRUE
    /\ alert' = Null
    /\ net' = Append(net, Req("disconnect", TRUE, FALSE))
    /\ UNCHANGED <<view, timers, loading, dashVars, logs, credentials, saving,
                   connecting, isConnected, address>>

\* handleDisconnectFreeAgent up to its await; c is the answer to window.confirm.
\* The button is rendered when connected and is disabled={disconnecting}
HandleDisconnectFreeAgent(c) ==
    /\ view = "settings"
    /\ ~loading
    /\ isConnected
    /\ ~disconnecting
    /\ IF c
       THEN /\ CanIssue
            /\ disconnecting' = TRUE
            /\ alert' = Null
            /\ net' = Append(net, Req("disconnect", TRUE, FALSE))
       ELSE UNCHANGED <<disconnecting, alert, net>>
    /\ UNCHANGED <<view, timers, loading, dashVars, logs, credentials, saving,
                   connecting, isConnected, address>>

\* POST /oauth/freeagent/disconnect resolves
DisconnectResolved(i) ==
    /\ net[i].kind = "disconnect"
    /\ net' = Remove(i)
    /\ IF net[i].live
       THEN /\ alert' = Alert("success", "Disconnected from FreeAgent successfully")
            /\ isConnected' = FALSE
            /\ disconnecting' = FALSE
       ELSE UNCHANGED <<alert, isConnected, disconnecting>>
    /\ UNCHANGED <<view, timers, loading, dashVars, logs, credentials, saving,
                   connecting, address>>

\* POST /oauth/freeagent/disconnect rejects with detail d
DisconnectRejected(i, d) ==
    /\ net[i].kind = "disconnect"
    /\ net' = Remove(i)
    /\ IF net[i].live
       THEN /\ alert' = Alert("error", Or(d, "Failed to disconnect"))
            /\ disconnecting' = FALSE
       ELSE UNCHANGED <<alert, disconnecting>>
    /\ UNCHANGED <<view, timers, loading, dashVars, logs, credentials, saving,
                   connecting, isConnected, address>>

\* ---------------------------------------------------------------- specification
Next ==
    \/ MountDashboard
    \/ MountLogs
    \/ \E q \in Queries : MountSettings(q[1], q[2])
    \/ \E t \in timers : Tick(t)
    \/ \E i \in Indexes, s \in StatusVals : StatusResponse(i, s)
    \/ \E i \in Indexes, l \in LogVals : RecentLogsResponse(i, l)
    \/ \E i \in Indexes : FetchDataRejected(i)
    \/ HandleManualSync
    \/ \E i \in Indexes, m \in ManualMessages : ManualSyncResolved(i, m)
    \/ \E i \in Indexes, d \in Details : ManualSyncRejected(i, d)
    \/ RefreshLogs
    \/ \E i \in Indexes, l \in LogVals : FetchLogsResolved(i, l)
    \/ \E i \in Indexes : FetchLogsRejected(i)
    \/ \E i \in Indexes, b \in Bodies : FetchCredentialsResolved(i, b)
    \/ \E i \in Indexes : FetchCredentialsRejected(i)
    \/ \E name \in FieldNames, value \in Typed : HandleChange(name, value)
    \/ HandleSubmit
    \/ \E i \in Indexes : SaveResolved(i)
    \/ \E i \in Indexes, d \in Details : SaveRejected(i, d)
    \/ HandleConnectFreeAgent
    \/ \E i \in Indexes : AuthorizeResolved(i)
    \/ \E i \in Indexes, d \in Details : AuthorizeRejected(i, d)
    \/ \E c \in BOOLEAN : HandleDisconnectFreeAgent(c)
    \/ \E i \in Indexes : DisconnectResolved(i)
    \/ \E i \in Indexes, d \in Details : DisconnectRejected(i, d)

Spec == Init /\ [][Next]_vars

\* ---------------------------------------------------------------- settled backend
\* The polling views from the moment the backend has stopped changing: the
\* view stays mounted, its timer keeps ticking and every request is answered
\* successfully. From here on a request in flight carries in st and lg the
\* response the backend gives it.

\* the SyncStatus and the log list of the backend once it has stopped changing
BackendStatus == [present |-> TRUE, is_running |-> "false"]
BackendLogs == <<1>>

\* a fetch of a polling view that will be answered with s and l
Served(k, s, l) ==
    [Req(k, TRUE, FALSE) EXCEPT !.st = IF k = "cycle" THEN s ELSE NoStatus, !.lg = l]

\* the fetches a polling view can have in flight when the backend stops
\* changing: they were issued before and may be answered with older data
InFlightBefore(k) ==
    UNION {[1..n -> {Served(k, s, l) : s \in StatusVals, l \in LogVals}] :
              n \in 0..MaxInFlight}

\* a polling view at the moment the backend stops changing: on its loading
\* page with the first fetch pending, or displaying what it fetched last
SettledInit ==
    /\ view \in {"dashboard", "logs"}
    /\ timers = SetInterval(view)
    /\ net \in InFlightBefore(IF view = "dashboard" THEN "cycle" ELSE "logs")
    /\ loading \in BOOLEAN
    /\ alert = Null
    /\ syncing = FALSE
    /\ IF view = "dashboard"
       THEN /\ syncStatus \in StatusVals \cup {NoStatus}
            /\ recentLogs \in LogVals
            /\ logs = << >>
       ELSE /\ syncStatus = NoStatus
            /\ recentLogs = << >>
            /\ logs \in LogVals
    /\ syncStatus = NoStatus => recentLogs = << >>
    /\ loading => (net # << >> /\ syncStatus = NoStatus /\ logs = << >>)
    /\ credentials = EmptyCredentials
    /\ saving = FALSE
    /\ connecting = FALSE
    /\ disconnecting = FALSE
    /\ isConnected = FALSE
    /\ address = Address(IF view = "dashboard" THEN "/" ELSE "/logs", UNDEF, UNDEF)

\* a tick of the interval: the fetch it issues is answered by the settled backend
SettledTick(t) ==
    /\ t \in timers
    /\ CanIssue
    /\ net' = Append(net, Served(IF t.view = "dashboard" THEN "cycle" ELSE "logs",
                                 BackendStatus, BackendLogs))
    /\ UNCHANGED <<view, timers, loading, alert, dashVars, logs, setVars, address>>

\* the refresh button of the Logs view, answered by the settled backend
SettledRefreshLogs ==
    /\ view = "logs"
    /\ ~loading
    /\ CanIssue
    /\ net' = Append(net, Served("logs", BackendStatus, BackendLogs))
    /\ UNCHANGED <<view, timers, loading, alert, dashVars, logs, setVars, address>>

\* a response arrives: any request in flight, in any order
Answer ==
    \E i \in Indexes :
        \/ StatusResponse(i, net[i].st)
        \/ RecentLogsResponse(i, net[i].lg)
        \/ FetchLogsResolved(i, net[i].lg)

SettledNext ==
    \/ \E t \in timers : SettledTick(t)
    \/ SettledRefreshLogs
    \/ \E i \in Indexes : StatusResponse(i, net[i].st)
    \/ \E i \in Indexes : RecentLogsResponse(i, net[i].lg)
    \/ \E i \in Indexes : FetchLogsResolved(i, net[i].lg)

\* the timer keeps ticking and requests in flight keep being answered
SettledSpec ==
    /\ SettledInit
    /\ [][SettledNext]_vars
    /\ WF_vars(\E t \in timers : SettledTick(t))
    /\ WF_vars(Answer)

\* ---------------------------------------------------------------- properties
\* state functions used by the properties
LiveIn(q) == {j \in 1..Len(q) : q[j].live}
FetchKind(v) ==
    IF v = "dashboard" THEN "cycle" ELSE IF v = "logs" THEN "logs" ELSE "credGet"
ViewTimers(v) ==
    IF v \in {"dashboard", "logs"} THEN {[view |-> v, live |-> TRUE]} ELSE {}
\* GET /sync/status and GET /sync/logs requests in flight for unmounted instances
OrphanFetches ==
    Cardinality({j \in Indexes : ~net[j].live /\ net[j].kind \in {"cycle", "logs"}})
\* POST /sync/manual requests of the mounted Dashboard
LiveManuals == Cardinality({j \in Indexes : net[j].live /\ net[j].kind = "manual"})
\* fetch cycles a running handleManualSync of the mounted Dashboard awaits
AwaitedCycles ==
    Cardinality({j \in Indexes : net[j].live /\ net[j].awaited /\ net[j].kind = "cycle"})
\* all fetch cycles in flight
Cycles == Cardinality({j \in Indexes : net[j].kind = "cycle"})

\* C1: a step that mounts a view (Dashboard, Logs or Settings) issues exactly
\* one request, the fetch of that view, and leaves it as the only request of
\* the new instance, together with the freshly armed timer of a polling view:
\* no tick of that timer can have fired before it.
C1_MountFetchesOnce ==
    [][(view' # view /\ view' \in Views) =>
          /\ Len(net') = Len(net) + 1
          /\ Cardinality(LiveIn(net')) = 1
          /\ net'[Len(net')] = Req(FetchKind(view'), TRUE, FALSE)
          /\ timers' = ViewTimers(view')
          /\ loading']_vars

\* C1 witness: the Logs view just mounted, its first fetch pending, timer armed
C1_Witness ==
    /\ view = "logs"
    /\ loading
    /\ LiveCount = 1
    /\ timers = ViewTimers("logs")

\* C2: every active timer belongs to the mounted view, and the number of
\* status/logs fetches in flight on behalf of unmounted views never grows
\* except by unmounting a view that had them in flight (no fetch is issued
\* after teardown).
C2_NoFetchAfterTeardown ==
    /\ [](\A t \in timers : t.live /\ t.view = view)
    /\ [][OrphanFetches' > OrphanFetches => view' # view]_vars

\* C3 as stated: every completion of a manual-sync trigger of the mounted
\* Dashboard, resolved or rejected, issues a fetch cycle awaited by the handler
\* while the syncing flag is still set.
C3_RefreshUnconditional ==
    [][(LiveManuals' < LiveManuals /\ view' = view) =>
          (AwaitedCycles' = AwaitedCycles + 1 /\ syncing')]_vars

\* C3 amended: a manual-sync trigger that resolves with a result object issues
\* one fetch cycle, awaited by the handler with the syncing flag still set (the
\* flag stays set while that cycle is in flight); a trigger that rejects, or
\* resolves without a result object, issues no request: it ends with an error
\* banner and the syncing flag reset.
C3_RefreshOnSuccess ==
    /\ [](AwaitedCycles > 0 => (syncing /\ view = "dashboard"))
    /\ [][\A i \in Indexes : net[i].kind = "manual" =>
            /\ \A m \in ManualMessages \ {NORESULT} :
                 ManualSyncResolved(i, m) =>
                    /\ Len(net') = Len(net)
                    /\ Cycles' = Cycles + 1
                    /\ net'[Len(net')] = Req("cycle", net[i].live, net[i].live)
                    /\ net[i].live => (syncing' /\ AwaitedCycles' = AwaitedCycles + 1)
            /\ ((\E d \in Details : ManualSyncRejected(i, d))
                   \/ ManualSyncResolved(i, NORESULT)) =>
                    /\ Len(net') = Len(net) - 1
                    /\ Cycles' = Cycles
                    /\ net[i].live => (~syncing' /\ alert'.type = "error")]_vars

\* C3 witness: the trigger resolved, the success banner is up and the handler
\* awaits the refresh with the syncing flag set
C3_Witness ==
    /\ view = "dashboard"
    /\ AwaitedCycles = 1
    /\ syncing
    /\ alert.type = "success"

\* C4: a manual-sync trigger of the mounted Dashboard that resolves with
\* result.message = X sets the success banner X, one that rejects with detail Y
\* sets the error banner Y, an absent or empty message or detail gives the
\* fixed fallback text in a banner of the same type, and while the handler
\* awaits the refresh no step (whatever the outcome of the refresh) changes
\* the banner.
C4_ManualSyncBanner ==
    [][/\ \A i \in Indexes : (net[i].kind = "manual" /\ net[i].live) =>
            /\ ManualSyncResolved(i, "X") => alert' = Alert("success", "X")
            /\ \A m \in {UNDEF, ""} :
                 ManualSyncResolved(i, m) =>
                    alert' = Alert("success", "Sync completed successfully!")
            /\ ManualSyncRejected(i, "Y") => alert' = Alert("error", "Y")
            /\ \A d \in {UNDEF, ""} :
                 ManualSyncRejected(i, d) =>
                    alert' = Alert("error",
                        "Sync failed. Please check your settings and try again.")
       /\ (AwaitedCycles > 0 /\ view' = view) => alert' = alert]_vars

\* C4 witness: the handler has ended, after a refresh, with the banner X
C4_Witness ==
    /\ view = "dashboard"
    /\ ~syncing
    /\ alert = Alert("success", "X")

\* C5: on the Dashboard, a displayed status with is_running = true disables the
\* manual-sync control whatever the syncing flag is (the handler cannot be
\* triggered), and the control is enabled exactly when the syncing flag is
\* false and is_running is not true.
C5_DisabledWhileRunning ==
    view = "dashboard" =>
        /\ (syncStatus.is_running = "true") =>
              (ManualSyncDisabled /\ ~ENABLED HandleManualSync)
        /\ ~ManualSyncDisabled <=> (syncing = FALSE /\ syncStatus.is_running # "true")

\* C5 witness: the backend reports a running sync while the local flag is false
C5_Witness ==
    /\ view = "dashboard"
    /\ ~loading
    /\ ~syncing
    /\ syncStatus.is_running = "true"

\* C6: at no point are two manual-sync trigger requests issued by the
\* dashboard outstanding at once, also across unmounting and remounting it.
C6_OneManualSyncInFlight ==
    Cardinality({j \in Indexes : net[j].kind = "manual"}) <= 1

\* C7: a credential load of the mounted Settings view that succeeds with a
\* payload leaves whmcs_secret and freeagent_client_secret blank in the form
\* state, whatever the payload carries in those fields.
C7_SecretsBlankOnLoad ==
    [][\A i \in Indexes : (net[i].kind = "credGet" /\ net[i].live) =>
          \A b \in Payloads :
             FetchCredentialsResolved(i, b) =>
                 /\ credentials'.whmcs_secret = ""
                 /\ credentials'.freeagent_client_secret = ""]_vars

\* C7 witness: the form shows a loaded payload (its whmcs_url; every payload
\* carries a non-empty freeagent_client_secret) and both secrets are blank
C7_Witness ==
    /\ view = "settings"
    /\ ~loading
    /\ credentials.whmcs_url = "u"
    /\ credentials.whmcs_secret = ""
    /\ credentials.freeagent_client_secret = ""

\* GET /settings/credentials requests of the mounted Settings view
LiveCredGets == Cardinality({j \in Indexes : net[j].live /\ net[j].kind = "credGet"})

\* C8: whenever a credential fetch of the mounted Settings view completes
\* (payload, empty body or failure), both secret fields of the form state
\* are blank.
C8_SecretsBlankAfterEveryFetch ==
    [][(LiveCredGets' < LiveCredGets /\ view' = view) =>
          /\ credentials'.whmcs_secret = ""
          /\ credentials'.freeagent_client_secret = ""]_vars

\* C9: mounting Settings with oauth=success sets the success banner, with
\* oauth=error the error banner whose text is the message parameter (a fixed
\* fallback when it is absent), and both rewrite the address to /settings
\* without a query; with oauth absent or of another value no banner is set
\* and the address keeps its query.
C9_OAuthCallbackConsumed ==
    [][(view # "settings" /\ view' = "settings") =>
        \A q \in Queries :
          MountSettings(q[1], q[2]) =>
             /\ q[1] = "success" =>
                   /\ alert' = Alert("success", "Successfully connected to FreeAgent!")
                   /\ address' = Address("/settings", UNDEF, UNDEF)
             /\ q[1] = "error" =>
                   /\ alert'.type = "error"
                   /\ alert'.message =
                        IF q[2] = UNDEF THEN "Failed to connect to FreeAgent" ELSE q[2]
                   /\ address' = Address("/settings", UNDEF, UNDEF)
             /\ q[1] \notin {"success", "error"} =>
                   /\ alert' = Null
                   /\ address' = Address("/settings", q[1], q[2])]_vars

\* C9 witness: Settings mounted from /settings?oauth=error&message=Denied
C9_Witness ==
    /\ view = "settings"
    /\ loading
    /\ alert = Alert("error", "Denied")
    /\ address = Address("/settings", UNDEF, UNDEF)

\* C10: when POST /settings/credentials of the mounted Settings view resolves,
\* the success banner is set and exactly one credential re-fetch is issued,
\* and when that re-fetch resolves with a payload the connected state equals
\* its is_connected value (false when absent); when the POST rejects, no
\* request is issued, an error banner is set and the form fields and the
\* connected state keep their values.
C10_SaveRefetches ==
    [][\A i \in Indexes : (net[i].kind \in {"credPost", "credGet"} /\ net[i].live) =>
          /\ SaveResolved(i) =>
                /\ alert' = Alert("success", "Credentials saved successfully!")
                /\ Len(net') = Len(net)
                /\ LiveCredGets' = LiveCredGets + 1
                /\ net'[Len(net')] = Req("credGet", TRUE, TRUE)
                /\ saving'
          /\ \A b \in Payloads :
                (net[i].awaited /\ FetchCredentialsResolved(i, b)) =>
                    /\ isConnected' = (b.is_connected = "true")
                    /\ ~saving'
          /\ \A d \in Details :
                SaveRejected(i, d) =>
                    /\ Len(net') = Len(net) - 1
                    /\ LiveCredGets' = LiveCredGets
                    /\ alert'.type = "error"
                    /\ credentials' = credentials
                    /\ isConnected' = isConnected
                    /\ ~saving']_vars

\* C10 witness: after a save the form was reloaded from the re-fetched payload
\* (the secrets typed for the save are gone) and the view shows connected
C10_Witness ==
    /\ view = "settings"
    /\ alert = Alert("success", "Credentials saved successfully!")
    /\ ~saving
    /\ credentials.whmcs_secret = ""
    /\ isConnected

\* POST /oauth/freeagent/disconnect requests of the mounted Settings view
LiveDisconnects ==
    Cardinality({j \in Indexes : net[j].live /\ net[j].kind = "disconnect"})

\* C11: a declined confirmation changes nothing (no request, banner, connected
\* state and in-flight flag as they were); a disconnect request of the mounted
\* Settings view is issued only by a confirmed click, which raises the
\* in-flight flag and clears the banner; when the request resolves the
\* connected state becomes false, when it rejects the connected state keeps
\* its value and an error banner is set; within one Settings instance the
\* connected state turns false only on a resolved disconnect or on a
\* credentials fetch that comes back.
C11_DisconnectConfirmed ==
    [][/\ HandleDisconnectFreeAgent(FALSE) => UNCHANGED vars
       /\ (LiveDisconnects' > LiveDisconnects) =>
             /\ HandleDisconnectFreeAgent(TRUE)
             /\ LiveDisconnects' = LiveDisconnects + 1
             /\ disconnecting'
             /\ alert' = Null
             /\ isConnected'
       /\ \A i \in Indexes : (net[i].kind = "disconnect" /\ net[i].live) =>
             /\ DisconnectResolved(i) =>
                   /\ ~isConnected'
                   /\ alert' = Alert("success", "Disconnected from FreeAgent successfully")
                   /\ ~disconnecting'
             /\ \A d \in Details :
                   DisconnectRejected(i, d) =>
                       /\ isConnected' = isConnected
                       /\ alert'.type = "error"
                       /\ ~disconnecting'
       /\ (view = "settings" /\ view' = view /\ isConnected /\ ~isConnected') =>
             \E i \in Indexes :
                 /\ net[i].live
                 /\ \/ DisconnectResolved(i)
                    \/ net[i].kind = "credGet" /\ net' = Remove(i)]_vars

\* C11 witness: a confirmed disconnect resolved: the view shows the success
\* banner, is no longer connected and its in-flight flag is down
C11_Witness ==
    /\ view = "settings"
    /\ alert = Alert("success", "Disconnected from FreeAgent successfully")
    /\ ~isConnected
    /\ ~disconnecting
    /\ LiveDisconnects = 0

\* C12: a Dashboard fetch cycle whose Promise.all rejects applies nothing:
\* the displayed SyncStatus and recent logs keep their values, also when the
\* other request of the pair had already resolved; and within one Dashboard
\* instance the displayed pair changes only in the step in which the second
\* of the two responses of one cycle arrives, which applies both jointly.
C12_RejectedCycleAppliesNothing ==
    [][/\ \A i \in Indexes : net[i].kind = "cycle" =>
             (FetchDataRejected(i) =>
                 /\ syncStatus' = syncStatus
                 /\ recentLogs' = recentLogs
                 /\ net' = Remove(i))
       /\ (view' = view /\ <<syncStatus, recentLogs>>' # <<syncStatus, recentLogs>>) =>
             \E i \in Indexes :
                 /\ net[i].kind = "cycle"
                 /\ net[i].live
                 /\ net[i].part # "none"
                 /\ net' = Remove(i)
                 /\ net[i].part = "status" => syncStatus' = net[i].st
                 /\ net[i].part = "logs" => recentLogs' = net[i].lg]_vars

\* C12 witness: the Dashboard left its loading page without any SyncStatus:
\* every fetch cycle that has completed so far was rejected and applied nothing
C12_Witness ==
    /\ view = "dashboard"
    /\ ~loading
    /\ syncStatus = NoStatus
    /\ recentLogs = << >>
    /\ Cycles = 0

\* C13: in every reachable state the active timers are exactly the one timer
\* of the mounted polling view: one 10-second timer on the Dashboard, one
\* 15-second timer on the Logs view, none elsewhere; so at most one timer is
\* active, never the two kinds together and never two of one view.
C13_OneTimer ==
    /\ Cardinality(timers) <= 1
    /\ timers = ViewTimers(view)

\* C13 witness: the Logs view was reached from the Dashboard, whose fetch
\* cycle is still in flight, and only the Logs timer is active
C13_Witness ==
    /\ view = "logs"
    /\ timers = {[view |-> "logs", live |-> TRUE]}
    /\ \E j \in Indexes : ~net[j].live /\ net[j].kind = "cycle"

\* fetches of the mounted view in flight
LiveFetches ==
    Cardinality({j \in Indexes : net[j].live /\ net[j].kind \in {"cycle", "logs"}})

\* C14: a tick issues a new fetch of the mounted view whatever is in flight
\* and leaves every request in flight as it was (no cancellation, no
\* de-duplication); the successful completion of any fetch of the mounted
\* view, wherever it stands in the order of issue, sets the displayed data to
\* the data of that response and leaves the other requests in flight: the
\* displayed data is that of the response that arrived last, also when that
\* response belongs to an earlier-issued request.
C14_LastArrivalWins ==
    [][/\ \A t \in timers : Tick(t) =>
             /\ Len(net') = Len(net) + 1
             /\ SubSeq(net', 1, Len(net)) = net
             /\ net'[Len(net')] = Req(FetchKind(view), TRUE, FALSE)
             /\ LiveFetches' = LiveFetches + 1
       /\ \A i \in Indexes : (net[i].live /\ net[i].kind \in {"cycle", "logs"}) =>
             /\ \A s \in StatusVals :
                   (net[i].part = "logs" /\ StatusResponse(i, s)) =>
                       /\ syncStatus' = s
                       /\ recentLogs' = net[i].lg
                       /\ net' = Remove(i)
             /\ \A l \in LogVals :
                   /\ (net[i].part = "status" /\ RecentLogsResponse(i, l)) =>
                         /\ syncStatus' = net[i].st
                         /\ recentLogs' = l
                         /\ net' = Remove(i)
                   /\ FetchLogsResolved(i, l) =>
                         /\ logs' = l
                         /\ net' = Remove(i)]_vars

\* C14 witness: the Dashboard displays data while two of its fetch cycles are
\* outstanding, and a response of the earlier-issued one has arrived
C14_Witness ==
    /\ view = "dashboard"
    /\ ~loading
    /\ syncStatus.present
    /\ Len(net) = 2
    /\ \A j \in Indexes : net[j].live /\ net[j].kind = "cycle"
    /\ net[1].part # "none"
    /\ net[2].part = "none"

\* what the mounted polling view displays equals what the backend holds
DisplaysBackend ==
    IF view = "dashboard"
    THEN syncStatus = BackendStatus /\ recentLogs = BackendLogs
    ELSE logs = BackendLogs

\* C15: once the backend has stopped changing, with the view staying mounted,
\* its timer ticking and requests answered successfully, the displayed status
\* and logs eventually equal the backend's and stay equal from then on,
\* whatever the order in which the responses of the requests in flight
\* (those issued before the backend settled included) arrive.
C15_Converges == <>[]DisplaysBackend

\* C15 witness: the view displays the backend's data while a fetch cycle
\* issued before the backend settled is half answered with other data, ahead
\* of a later-issued one: its responses arrive out of order
C15_Witness ==
    /\ view = "dashboard"
    /\ DisplaysBackend
    /\ Len(net) = 2
    /\ net[1].st # BackendStatus
    /\ net[1].part = "logs"
    /\ net[2].st = BackendStatus /\ net[2].lg = BackendLogs
    /\ net[2].part = "none"

\* the mounted view has a request of kind k in flight (awaited by a handler
\* when a is TRUE)
Outstanding(k, a) ==
    \E j \in Indexes : net[j].live /\ net[j].kind = k /\ (a => net[j].awaited)

\* C16: when a request of the mounted view fails, the flag of the action it
\* belongs to is false afterwards: loading after a failed fetch, syncing
\* after a failed manual sync or a failed refresh that handleManualSync
\* awaits, saving after a failed save or a failed re-fetch that handleSubmit
\* awaits, connecting and disconnecting after their failed requests; and in
\* every reachable state a flag that is up has a request of its action still
\* unanswered, so no flag stays up once its requests have been answered.
C16_FlagsLowered ==
    /\ [][\A i \in Indexes : net[i].live =>
             /\ FetchDataRejected(i) => (~loading' /\ (net[i].awaited => ~syncing'))
             /\ FetchLogsRejected(i) => ~loading'
             /\ FetchCredentialsRejected(i) =>
                   (~loading' /\ (net[i].awaited => ~saving'))
             /\ (net[i].kind = "manual" /\ ManualSyncResolved(i, NORESULT)) => ~syncing'
             /\ \A d \in Details :
                   /\ (net[i].kind = "manual" /\ ManualSyncRejected(i, d)) => ~syncing'
                   /\ (net[i].kind = "credPost" /\ SaveRejected(i, d)) => ~saving'
                   /\ (net[i].kind = "authorize" /\ AuthorizeRejected(i, d)) =>
                         ~connecting'
                   /\ (net[i].kind = "disconnect" /\ DisconnectRejected(i, d)) =>
                         ~disconnecting']_vars
    /\ [](/\ (view \in Views /\ loading) => Outstanding(FetchKind(view), FALSE)
          /\ syncing => (Outstanding("manual", FALSE) \/ Outstanding("cycle", TRUE))
          /\ saving => (Outstanding("credPost", FALSE) \/ Outstanding("credGet", TRUE))
          /\ connecting => Outstanding("authorize", FALSE)
          /\ disconnecting => Outstanding("disconnect", FALSE))

\* C16 witness: a save failed; the Settings form shows the error banner, is
\* not saving and has nothing in flight, so it can be submitted again
C16_Witness ==
    /\ view = "settings"
    /\ ~loading
    /\ alert = Alert("error", "Failed to save credentials")
    /\ ~saving
    /\ FormValid
    /\ net = << >>
    /\ ENABLED HandleSubmit

====
